---- MODULE Spec2Model ----
(***************************************************************************)
(* Model of auditor/utils.py (compiled as utils.cpython-36): the timestamp *)
(* resolver str_to_time, the day/night classifier daytime and the keyed    *)
(* row lookup get_for_id.  Each function is a pure function of its         *)
(* arguments; each specification below draws the arguments from bounded    *)
(* sets and applies the function in one step.  Further specifications      *)
(* model daytime calls that interleave on one daycycle, and the file       *)
(* functions read_csv, write_csv and read_json with the file they open.    *)
(*                                                                         *)
(* Time is modelled at a granularity of one hour: a datetime is a calendar *)
(* day, an hour of that day and a tzinfo (or None).  Strings are real      *)
(* strings, built and recognised in the formats the code builds and        *)
(* parses.                                                                 *)
(***************************************************************************)
EXTENDS Integers, Sequences, FiniteSets, TLC

VARIABLES
    daycycle,    \* daytime: the daycycle dictionary
    time,        \* daytime: the datetime to classify
    timestamp,   \* str_to_time: the string to convert
    tzsource,    \* str_to_time: None, a zone name or a datetime
    table,       \* get_for_id: the two-dimensional list
    id,          \* get_for_id: the identifier to look for
    result,      \* what the last call returned or raised
    readers,     \* concurrent daytime calls: position and locals of each
    data,        \* write_csv: the two-dimensional list to write
    disk,        \* the file at filename: its characters, or NoFile
    handles      \* the file objects the calls opened, in order of opening

vars == <<daycycle, time, timestamp, tzsource, table, id, result,
          readers, data, disk, handles>>

----------------------------------------------------------------------------
(* Bounds of the model *)

\* number of calendar days of Calendar that datetimes and tables range over
NumDays == 3
\* hours of the day range over 0..MaxHour
MaxHour == 4
\* get_for_id: tables have at most MaxRows rows
MaxRows == 3
\* write_csv: a cell has at most MaxCellLen characters
MaxCellLen == 2
\* write_csv: the data has at most MaxCsvRows rows and MaxCells cells in all
MaxCsvRows == 2
MaxCells == 2
\* the file functions are called until MaxCalls files have been opened
MaxCalls == 2

----------------------------------------------------------------------------
(* Python values *)

\* the value None
None == [type |-> "NoneType"]

\* a bool
Bool(b) == [type |-> "bool", value |-> b]

\* a str
Str(s) == [type |-> "str", value |-> s]

\* an exception that leaves the function
Raise(e) == [type |-> "raise", exc |-> e]

\* the state of a variable no call has set
Unset == [type |-> "unset"]

----------------------------------------------------------------------------
(* Calendar and clock *)

\* hours in a calendar day (the unit of hour and of utc offsets)
HoursPerDay == 24

\* The calendar days of the model, around the end of daylight saving time of
\* 2015 in the United States and in the next year; ord counts the days since
\* 2015-01-01.
Calendar ==
    << [y |-> 2015, m |-> 10, d |-> 31, ord |-> 303],
       [y |-> 2015, m |-> 11, d |-> 1,  ord |-> 304],
       [y |-> 2016, m |-> 1,  d |-> 1,  ord |-> 365],
       [y |-> 2015, m |-> 11, d |-> 2,  ord |-> 305],
       [y |-> 2016, m |-> 1,  d |-> 2,  ord |-> 366] >>

Days == 1..NumDays

Hours == 0..MaxHour

\* two digits, zero-padded
Pad2(n) == IF n < 10 THEN "0" \o ToString(n) ELSE ToString(n)

\* datetime.strftime('%Y')
StrfYear(day) == ToString(Calendar[day].y)

\* datetime.strftime('%m-%d')
StrfMonthDay(day) == Pad2(Calendar[day].m) \o "-" \o Pad2(Calendar[day].d)

\* datetime.strftime('%Y-%m-%d')
StrfDate(day) == StrfYear(day) \o "-" \o StrfMonthDay(day)

\* a time of day in 24-hour format, as the daycycle dictionary holds it
HourMinute(h) == Pad2(h) \o ":00"

\* a utc offset as it is written at the end of a timestamp
OffsetSuffix(off) ==
    IF off < 0 THEN "-" \o Pad2(0 - off) \o ":00" ELSE "+" \o Pad2(off) \o ":00"

----------------------------------------------------------------------------
(* Time zones *)

\* The zones pytz knows, of which the model has two: the utc offset in
\* standard time and in daylight saving time, and the utc hour (counted from
\* 2015-01-01T00:00Z) of the end of daylight saving time 2015, from which on
\* standard time is in effect.
Zones ==
    [ America_New_York |-> [name |-> "America/New_York", std |-> 0 - 5, dst |-> 0 - 4,
                            fallBack |-> 304 * HoursPerDay + 6],
      America_Chicago  |-> [name |-> "America/Chicago", std |-> 0 - 6, dst |-> 0 - 5,
                            fallBack |-> 304 * HoursPerDay + 7] ]

ZoneNames == {Zones[k].name : k \in DOMAIN Zones}

\* pytz.timezone(name), for a name pytz knows
Zone(name) == CHOOSE z \in {Zones[k] : k \in DOMAIN Zones} : z.name = name

\* a tzinfo: the zone it belongs to and its fixed utc offset
TzInfo(name, off) == [type |-> "tzinfo", name |-> name, off |-> off]

\* a datetime object; tzinfo is None for a naive one
DateTime(day, hour, tzinfo) ==
    [type |-> "datetime", day |-> day, hour |-> hour, tzinfo |-> tzinfo]

\* the wall clock of a datetime, in hours since 2015-01-01T00:00
Wall(dt) == Calendar[dt.day].ord * HoursPerDay + dt.hour

\* the absolute instant of an aware datetime, in hours since 2015-01-01T00:00Z
Utc(dt) == Wall(dt) - dt.tzinfo.off

\* the utc offset a zone has at a utc instant
UtcOffsetAt(zone, utc) == IF utc < zone.fallBack THEN zone.dst ELSE zone.std

\* tz.localize(d) with is_dst=False: the offsets of the zone under which the
\* wall clock of d is a time that the zone shows; the standard-time one when
\* the wall clock occurs twice or never.
LocalizeFixedStd(zone, d) ==
    DateTime(d.day, d.hour, TzInfo(zone.name, zone.std))

Localize(zone, d) ==
    LET fits == {o \in {zone.std, zone.dst} : UtcOffsetAt(zone, Wall(d) - o) = o}
        off  == IF Cardinality(fits) = 1 THEN CHOOSE o \in fits : TRUE ELSE zone.std
    IN  DateTime(d.day, d.hour, TzInfo(zone.name, off))

\* datetime.replace(tzinfo=...): the same date and time fields under another
\* tzinfo; the fields are not converted
Replace_Discarded(d, tzinfo) == d

Replace(d, tzinfo) == DateTime(d.day, d.hour, tzinfo)

----------------------------------------------------------------------------
(* Timestamp strings and dateutil.parser.parse *)

\* the utc offsets a timestamp text may end with
TextOffsets == {0 - 5, 0 - 4, 0}

\* the tzinfo parse gives a timestamp that ends with a utc offset
TzOffset(off) == IF off = 0 THEN TzInfo("tzutc", 0) ELSE TzInfo("tzoffset", off)

\* the ISO form of a date and time: 2015-11-01T01:00
IsoNaive(day, hour) == StrfDate(day) \o "T" \o HourMinute(hour)

\* The texts parse recognises, each with the datetime it stands for: a date
\* alone, a date and a time, with and without seconds, with and without a
\* utc offset.
Parsable ==
    {[text |-> StrfDate(day), value |-> DateTime(day, 0, None)] : day \in Days}
    \cup
    {[text |-> IsoNaive(day, h), value |-> DateTime(day, h, None)] :
        day \in Days, h \in Hours}
    \cup
    {[text |-> IsoNaive(day, h) \o ":00", value |-> DateTime(day, h, None)] :
        day \in Days, h \in Hours}
    \cup
    UNION {{[text |-> IsoNaive(day, h) \o ":00" \o OffsetSuffix(off),
             value |-> DateTime(day, h, TzOffset(off))] :
              day \in Days, h \in Hours} : off \in TextOffsets}

\* texts that are no timestamp
Unparsable == {"", "not a timestamp", "2015-13-45T25:00:00"}

\* dateutil.parser.parse(timestamp): the datetime, or the error it raises
Parse(text) ==
    LET hits == {p \in Parsable : p.text = text}
    IN  IF hits = {} THEN Raise("ValueError") ELSE (CHOOSE p \in hits : TRUE).value

----------------------------------------------------------------------------
(* str_to_time *)

\* the part of str_to_time after the try statement: d is the parsed datetime
Resolve_HintFirst(d, tzs) ==
    IF tzs = None THEN d
    ELSE IF tzs.type = "str"
    THEN IF tzs.value \in ZoneNames
         THEN Localize(Zone(tzs.value), Replace(d, None))
         ELSE Raise("UnknownTimeZoneError")
    ELSE IF tzs.type = "datetime" THEN Replace(d, tzs.tzinfo)
    ELSE None

Resolve_DefaultUtc(d, tzs) ==
    IF d.tzinfo # None THEN d
    ELSE IF tzs = None THEN Replace(d, TzOffset(0))
    ELSE IF tzs.type = "str"
    THEN IF tzs.value \in ZoneNames
         THEN Localize(Zone(tzs.value), d)
         ELSE Raise("UnknownTimeZoneError")
    ELSE IF tzs.type = "datetime" THEN Replace(d, tzs.tzinfo)
    ELSE None

Resolve(d, tzs) ==
    IF d.tzinfo # None THEN d
    ELSE IF d.tzinfo = None
    THEN IF tzs = None THEN d
         ELSE IF tzs.type = "str"
         THEN IF tzs.value \in ZoneNames
              THEN Localize(Zone(tzs.value), d)
              ELSE Raise("UnknownTimeZoneError")
         ELSE IF tzs.type = "datetime" THEN Replace(d, tzs.tzinfo)
         ELSE None
    ELSE None

\* str_to_time(timestamp, tzsource=None)
str_to_time_Unguarded(text, tzs) ==
    LET d == Parse(text)
    IN  IF d.type = "raise" THEN d ELSE Resolve(d, tzs)

str_to_time(text, tzs) ==
    LET d == Parse(text)
    IN  IF d.type = "raise" THEN None ELSE Resolve(d, tzs)

----------------------------------------------------------------------------
(* daytime *)

\* datetime comparison, both aware: by absolute instant.  A comparison with
\* None (an entry that str_to_time could not convert) is a TypeError, which
\* the callers below turn into the exception.
Comparable(a, b) == a.type = "datetime" /\ b.type = "datetime"

Lt(a, b) == Utc(a) < Utc(b)

Le(a, b) == Utc(a) <= Utc(b)

Gt_OrEqual(a, b) == Utc(a) >= Utc(b)

Gt_WallClock(a, b) == Wall(a) > Wall(b)

Gt(a, b) == Utc(a) > Utc(b)

Ge(a, b) == Utc(a) >= Utc(b)

\* the two tests of daytime on a datetime x that has a tzinfo: True, False,
\* or Unset when neither test returns
Classify_Gap(x, sunrise, sunset) ==
    IF Gt(x, sunrise) /\ Lt(x, sunset) THEN Bool(TRUE)
    ELSE IF Lt(x, sunrise) \/ Gt(x, sunset) THEN Bool(FALSE)
    ELSE Unset

Classify_Overnight(x, sunrise, sunset) ==
    IF Le(sunset, sunrise)
    THEN Bool(Gt(x, sunrise) \/ Lt(x, sunset))
    ELSE IF Gt(x, sunrise) /\ Lt(x, sunset) THEN Bool(TRUE)
    ELSE IF Le(x, sunrise) \/ Ge(x, sunset) THEN Bool(FALSE)
    ELSE Unset

Classify(x, sunrise, sunset) ==
    IF Gt(x, sunrise) /\ Lt(x, sunset) THEN Bool(TRUE)
    ELSE IF Le(x, sunrise) \/ Ge(x, sunset) THEN Bool(FALSE)
    ELSE Unset

\* daytime from the reading of the entry on: year is a key of daycycle
Lookup(t, dc) ==
    LET year  == StrfYear(t.day)
        mm_dd == StrfMonthDay(t.day)
    IN  IF mm_dd \notin DOMAIN dc[year] THEN Raise("KeyError")
        ELSE
        LET sr_time   == dc[year][mm_dd].sunrise
            sr_tstamp == StrfDate(t.day) \o "T" \o sr_time
            ss_time   == dc[year][mm_dd].sunset
            ss_tstamp == StrfDate(t.day) \o "T" \o ss_time
            tzs       == Str(dc["timezone"])
            sunrise   == str_to_time(sr_tstamp, tzs)
            sunset    == str_to_time(ss_tstamp, tzs)
            aware     == IF t.tzinfo # None
                         THEN IF Comparable(sunrise, sunset)
                              THEN Classify(t, sunrise, sunset)
                              ELSE Raise("TypeError")
                         ELSE Unset
            new_time  == Replace(t, sunrise.tzinfo)
            naive     == IF t.tzinfo = None
                         THEN IF sunrise.type # "datetime" THEN Raise("AttributeError")
                              ELSE IF sunset.type # "datetime" THEN Raise("TypeError")
                              ELSE Classify(new_time, sunrise, sunset)
                         ELSE Unset
        IN  IF aware # Unset THEN aware
            ELSE IF naive # Unset THEN naive
            ELSE None

\* daytime(time, daycycle)
daytime_YearDefault(t, dc) ==
    IF StrfYear(t.day) \notin DOMAIN dc THEN Bool(FALSE) ELSE Lookup(t, dc)

daytime_InTableZone(t, dc) ==
    LET zone == Zone(dc["timezone"])
        wall == Utc(t) + UtcOffsetAt(zone, Utc(t))
        days == {d \in DOMAIN Calendar : Calendar[d].ord = wall \div HoursPerDay}
        u    == IF t.tzinfo = None \/ days = {} THEN t
                ELSE DateTime(CHOOSE d \in days : TRUE, wall % HoursPerDay,
                              TzInfo(zone.name, UtcOffsetAt(zone, Utc(t))))
    IN  IF StrfYear(u.day) \notin DOMAIN dc THEN None ELSE Lookup(u, dc)

daytime(t, dc) ==
    LET year == StrfYear(t.day)
    IN  IF year \notin DOMAIN dc THEN None
        ELSE IF year \in DOMAIN dc THEN Lookup(t, dc)
        ELSE None

----------------------------------------------------------------------------
(* get_for_id *)

\* the first row the loop of get_for_id visits (rows are counted from 0)
FirstRow == 1

\* row x of a table, counted from 0 as the code counts
Row(tb, x) == tb[x + 1]

\* what get_for_id returns for row x: the row object itself, by reference
RowRef(tb, x) == [type |-> "list", ref |-> x, value |-> Row(tb, x)]

\* the loop of get_for_id from row x on
RECURSIVE Scan(_, _, _)
Scan(ident, tb, x) ==
    IF x >= Len(tb) THEN None
    ELSE IF ident = Row(tb, x)[1] THEN RowRef(tb, x)
    ELSE Scan(ident, tb, x + 1)

\* get_for_id(id, table)
get_for_id(ident, tb) == Scan(ident, tb, FirstRow)

----------------------------------------------------------------------------
(* The arguments the specifications draw *)

\* the tzinfo of a datetime read from a timestamp that ends with Z or +00:00
UtcTz == TzOffset(0)

\* datetime objects: naive ones, ones localized in each zone, and utc ones
NaiveTimes == {DateTime(day, h, None) : day \in Days, h \in Hours}

DateTimes ==
    NaiveTimes
    \cup {Localize(Zone(z), d) : z \in ZoneNames, d \in NaiveTimes}
    \cup {Replace(d, UtcTz) : d \in NaiveTimes}

\* the years and the month-day keys of the calendar days
Years == {StrfYear(day) : day \in Days}

\* A daycycle dictionary: the zone, the days that have an entry, the years
\* that are keys (those of the days, and others with no entry), and the
\* sunrise and sunset hour of the entries.
DayCycle(zone, days, years, sr, ss) ==
    [k \in {"timezone"} \cup years \cup {StrfYear(day) : day \in days} |->
        IF k = "timezone" THEN zone
        ELSE [md \in {StrfMonthDay(day) : day \in {x \in days : StrfYear(x) = k}} |->
                [sunrise |-> HourMinute(sr), sunset |-> HourMinute(ss)]]]

DayCycles ==
    {DayCycle(zone, days, years, sr, ss) :
        zone \in ZoneNames, days \in SUBSET Days, years \in SUBSET Years,
        sr \in Hours, ss \in Hours}

\* timestamp strings
Timestamps == {p.text : p \in Parsable} \cup Unparsable

\* the values of tzsource: None, zone names (one that pytz does not know),
\* datetime objects
TzSources ==
    {None}
    \cup {Str(z) : z \in ZoneNames \cup {"Mars/Olympus_Mons"}}
    \cup {d \in DateTimes : d.day = 1 /\ d.hour \in {0, MaxHour}}

\* identifiers and cells
Ids == {"S00309", "s00309", "S00308"}

Cells == {"738GG", "133CZ"}

\* tables: rows of an identifier and one more cell
Rows == {<<i, c>> : i \in Ids, c \in Cells}

Tables == UNION {[1..n -> Rows] : n \in 0..MaxRows}

----------------------------------------------------------------------------
(* Specification of daytime *)

InitDaytime ==
    /\ daycycle \in DayCycles
    /\ time = Unset
    /\ timestamp = Unset
    /\ tzsource = Unset
    /\ table = Unset
    /\ id = Unset
    /\ result = Unset
    /\ readers = Unset
    /\ data = Unset
    /\ disk = Unset
    /\ handles = Unset

\* a call daytime(t, daycycle)
Daytime(t) ==
    /\ result = Unset
    /\ time' = t
    /\ result' = daytime(t, daycycle)
    /\ UNCHANGED <<daycycle, timestamp, tzsource, table, id, readers, data, disk, handles>>

NextDaytime == \E t \in DateTimes : Daytime(t)

SpecDaytime == InitDaytime /\ [][NextDaytime]_vars

----------------------------------------------------------------------------
(* Specification of daytime calls that interleave on one daycycle.  A call
   reads the dictionary four times: the year keys, the sunrise of the entry,
   its sunset, and the timezone; calls of other readers may run in between.
   No statement of daytime assigns to the dictionary. *)

\* the concurrent callers
Readers == {"reader1", "reader2"}

\* the hour of the datetimes the readers pass, and the hours of the entries
ReaderHour == 2
ReaderSunrise == 1
ReaderSunset == 3

ReaderTimes == {t \in DateTimes : t.hour = ReaderHour}

ReaderDayCycles ==
    {DayCycle(zone, days, {}, ReaderSunrise, ReaderSunset) :
        zone \in ZoneNames, days \in SUBSET Days}

\* the comparison that ends daytime, from the strings read before
Decide(t, sr_time, ss_time, tzs) ==
    LET sr_tstamp == StrfDate(t.day) \o "T" \o sr_time
        ss_tstamp == StrfDate(t.day) \o "T" \o ss_time
        sunrise   == str_to_time(sr_tstamp, tzs)
        sunset    == str_to_time(ss_tstamp, tzs)
    IN  IF t.tzinfo # None
        THEN IF Comparable(sunrise, sunset)
             THEN Classify(t, sunrise, sunset)
             ELSE Raise("TypeError")
        ELSE IF sunrise.type # "datetime" THEN Raise("AttributeError")
        ELSE IF sunset.type # "datetime" THEN Raise("TypeError")
        ELSE Classify(Replace(t, sunrise.tzinfo), sunrise, sunset)

Idle == [pc |-> "idle", time |-> Unset, sr_time |-> "", ss_time |-> "",
         result |-> Unset]

InitReaders ==
    /\ daycycle \in ReaderDayCycles
    /\ time = Unset
    /\ timestamp = Unset
    /\ tzsource = Unset
    /\ table = Unset
    /\ id = Unset
    /\ result = Unset
    /\ readers = [r \in Readers |-> Idle]
    /\ data = Unset
    /\ disk = Unset
    /\ handles = Unset

\* reader r calls daytime(t, daycycle)
Enter(r, t) ==
    /\ readers[r].pc = "idle"
    /\ readers' = [readers EXCEPT ![r].pc = "year", ![r].time = t]
    /\ UNCHANGED <<daycycle, time, timestamp, tzsource, table, id, result,
                   data, disk, handles>>

\* year = time.strftime('%Y'); if year not in daycycle.keys(): return None
CheckYear(r) ==
    /\ readers[r].pc = "year"
    /\ readers' =
          IF StrfYear(readers[r].time.day) \notin DOMAIN daycycle
          THEN [readers EXCEPT ![r].pc = "done", ![r].result = None]
          ELSE [readers EXCEPT ![r].pc = "sunrise"]
    /\ UNCHANGED <<daycycle, time, timestamp, tzsource, table, id, result,
                   data, disk, handles>>

\* a variant that takes the entry out of the dictionary as it reads it
ReadSunrise_Pop(r) ==
    LET year  == StrfYear(readers[r].time.day)
        mm_dd == StrfMonthDay(readers[r].time.day)
    IN  /\ readers[r].pc = "sunrise"
        /\ IF mm_dd \notin DOMAIN daycycle[year]
           THEN /\ readers' = [readers EXCEPT ![r].pc = "done",
                                              ![r].result = Raise("KeyError")]
                /\ UNCHANGED daycycle
           ELSE /\ readers' = [readers EXCEPT ![r].pc = "sunset",
                                  ![r].sr_time = daycycle[year][mm_dd].sunrise]
                /\ daycycle' = [daycycle EXCEPT ![year] =
                       [k \in DOMAIN daycycle[year] \ {mm_dd} |-> daycycle[year][k]]]
        /\ UNCHANGED <<time, timestamp, tzsource, table, id, result,
                       data, disk, handles>>

\* mm_dd = time.strftime('%m-%d'); sr_time = daycycle[year][mm_dd]['sunrise']
ReadSunrise(r) ==
    LET year  == StrfYear(readers[r].time.day)
        mm_dd == StrfMonthDay(readers[r].time.day)
    IN  /\ readers[r].pc = "sunrise"
        /\ readers' =
              IF mm_dd \notin DOMAIN daycycle[year]
              THEN [readers EXCEPT ![r].pc = "done", ![r].result = Raise("KeyError")]
              ELSE [readers EXCEPT ![r].pc = "sunset",
                                   ![r].sr_time = daycycle[year][mm_dd].sunrise]
        /\ UNCHANGED <<daycycle, time, timestamp, tzsource, table, id, result,
                       data, disk, handles>>

\* ss_time = daycycle[year][mm_dd]['sunset']
ReadSunset(r) ==
    LET year  == StrfYear(readers[r].time.day)
        mm_dd == StrfMonthDay(readers[r].time.day)
    IN  /\ readers[r].pc = "sunset"
        /\ readers' =
              IF mm_dd \notin DOMAIN daycycle[year]
              THEN [readers EXCEPT ![r].pc = "done", ![r].result = Raise("KeyError")]
              ELSE [readers EXCEPT ![r].pc = "timezone",
                                   ![r].ss_time = daycycle[year][mm_dd].sunset]
        /\ UNCHANGED <<daycycle, time, timestamp, tzsource, table, id, result,
                       data, disk, handles>>

\* tzsource = daycycle['timezone'], the two str_to_time calls, the comparison
ReadTimezone(r) ==
    /\ readers[r].pc = "timezone"
    /\ readers' = [readers EXCEPT ![r].pc = "done",
                      ![r].result = Decide(readers[r].time, readers[r].sr_time,
                                           readers[r].ss_time,
                                           Str(daycycle["timezone"]))]
    /\ UNCHANGED <<daycycle, time, timestamp, tzsource, table, id, result,
                   data, disk, handles>>

NextReaders ==
    \E r \in Readers :
        \/ \E t \in ReaderTimes : Enter(r, t)
        \/ CheckYear(r)
        \/ ReadSunrise(r)
        \/ ReadSunset(r)
        \/ ReadTimezone(r)

SpecReaders == InitReaders /\ [][NextReaders]_vars

----------------------------------------------------------------------------
(* Specification of str_to_time *)

InitStrToTime ==
    /\ daycycle = Unset
    /\ time = Unset
    /\ timestamp = Unset
    /\ tzsource = Unset
    /\ table = Unset
    /\ id = Unset
    /\ result = Unset
    /\ readers = Unset
    /\ data = Unset
    /\ disk = Unset
    /\ handles = Unset

\* a call str_to_time(text, tzs)
StrToTime(text, tzs) ==
    /\ result = Unset
    /\ timestamp' = Str(text)
    /\ tzsource' = tzs
    /\ result' = str_to_time(text, tzs)
    /\ UNCHANGED <<daycycle, time, table, id, readers, data, disk, handles>>

NextStrToTime == \E text \in Timestamps, tzs \in TzSources : StrToTime(text, tzs)

SpecStrToTime == InitStrToTime /\ [][NextStrToTime]_vars

----------------------------------------------------------------------------
(* Specification of get_for_id *)

InitGetForId ==
    /\ daycycle = Unset
    /\ time = Unset
    /\ timestamp = Unset
    /\ tzsource = Unset
    /\ table \in Tables
    /\ id = Unset
    /\ result = Unset
    /\ readers = Unset
    /\ data = Unset
    /\ disk = Unset
    /\ handles = Unset

\* a call get_for_id(ident, table)
GetForId(ident) ==
    /\ result = Unset
    /\ id' = Str(ident)
    /\ result' = get_for_id(ident, table)
    /\ UNCHANGED <<daycycle, time, timestamp, tzsource, table, readers, data, disk, handles>>

NextGetForId == \E ident \in Ids : GetForId(ident)

SpecGetForId == InitGetForId /\ [][NextGetForId]_vars

----------------------------------------------------------------------------
(* Specification of get_for_id with a caller that assigns to the returned row.
   get_for_id returns table[x], the row object of the table, so the returned
   list and the row of the table are one object. *)

\* the caller's assignment row[c] = v, row being the list get_for_id returned
ModifyReturned(c, v) ==
    /\ result.type = "list"
    /\ c \in 1..Len(result.value)
    /\ table' = [table EXCEPT ![result.ref + 1][c] = v]
    /\ result' = RowRef(table', result.ref)
    /\ UNCHANGED <<daycycle, time, timestamp, tzsource, id, readers, data, disk, handles>>

NextRowAlias ==
    \/ \E ident \in Ids : GetForId(ident)
    \/ \E c \in 1..2, v \in Ids \cup Cells : ModifyReturned(c, v)

SpecRowAlias == InitGetForId /\ [][NextRowAlias]_vars

----------------------------------------------------------------------------
(* Files of text.  A text, and every Python string of the file functions, is
   a sequence of characters, each a string of length one; two characters that
   TLA+ strings cannot hold have names. *)

Comma == ","
Quote == "\""
LF == "\n"
CR == "\r"
\* the character U+0000
NUL == "<NUL>"
\* a byte that the encoding of the file cannot decode
Undecodable == "<0xFF>"

\* what is at filename: no file, or a file of these characters
NoFile == [type |-> "nofile"]
File(bytes) == [type |-> "file", bytes |-> bytes]

\* a list
List(v) == [type |-> "list", value |-> v]

\* the concatenation of the texts of a sequence
RECURSIVE Concat(_)
Concat(texts) ==
    IF texts = <<>> THEN <<>> ELSE Head(texts) \o Concat(Tail(texts))

\* the line separators of the platforms, os.linesep
LineSeps == {<<LF>>, <<CR, LF>>}

\* file.write(text) on a file of open(filename, 'w'): newline is None, so
\* each "\n" is written as os.linesep
TextWrite(text, linesep) ==
    Concat([i \in 1..Len(text) |-> IF text[i] = LF THEN linesep ELSE <<text[i]>>])

\* what a file of open(filename) reads: newline is None, so "\r\n" and "\r"
\* are read as "\n"
RECURSIVE UniversalNewlines(_)
UniversalNewlines(bytes) ==
    IF bytes = <<>> THEN <<>>
    ELSE IF Head(bytes) = CR
    THEN IF Len(bytes) >= 2 /\ bytes[2] = LF
         THEN <<LF>> \o UniversalNewlines(Tail(Tail(bytes)))
         ELSE <<LF>> \o UniversalNewlines(Tail(bytes))
    ELSE <<Head(bytes)>> \o UniversalNewlines(Tail(bytes))

----------------------------------------------------------------------------
(* csv.writer(file), the excel dialect: delimiter ',', quotechar '"',
   doublequote, QUOTE_MINIMAL, lineterminator '\r\n' *)

\* the characters that make the writer quote a field
NeedsQuotes(c) == c \in {Comma, Quote, CR, LF}

\* one field as the writer appends it to the record
join_append(field) ==
    LET body == Concat([i \in 1..Len(field) |->
                    IF field[i] = Quote THEN <<Quote, Quote>> ELSE <<field[i]>>])
    IN  IF \E i \in 1..Len(field) : NeedsQuotes(field[i])
        THEN <<Quote>> \o body \o <<Quote>>
        ELSE body

\* the fields of a row, joined by the delimiter
RECURSIVE JoinFields(_)
JoinFields(row) ==
    IF row = <<>> THEN <<>>
    ELSE IF Len(row) = 1 THEN join_append(row[1])
    ELSE join_append(row[1]) \o <<Comma>> \o JoinFields(Tail(row))

\* the line writerow(row) writes; a record that is empty though the row has a
\* field is written as a quoted empty field
writerow(row) ==
    LET rec == JoinFields(row)
    IN  (IF Len(row) > 0 /\ rec = <<>> THEN <<Quote, Quote>> ELSE rec) \o <<CR, LF>>

----------------------------------------------------------------------------
(* csv.reader(file), the excel dialect, not strict.  The reader takes the
   lines of the file one by one, feeds every character of a line to its state
   machine and then the end-of-line mark; a record is complete when a line
   ends in state START_RECORD. *)

\* the mark the reader feeds after the last character of each line
EOL == "<EOL>"

\* the reader before a record
StartRecord == [state |-> "START_RECORD", field |-> <<>>, fields |-> <<>>]

\* parse_save_field
SaveField(st, next) ==
    [state |-> next, field |-> <<>>, fields |-> Append(st.fields, st.field)]

\* parse_add_char
AddChar(st, c, next) ==
    [state |-> next, field |-> Append(st.field, c), fields |-> st.fields]

\* the state after an end of line: START_RECORD at the mark, else EAT_CRNL
AfterLine(c) == IF c = EOL THEN "START_RECORD" ELSE "EAT_CRNL"

\* parse_process_char
ProcessChar(st, c) ==
    LET state == IF st.state = "START_RECORD" /\ c \notin {EOL, LF, CR}
                 THEN "START_FIELD" ELSE st.state
    IN  CASE state = "START_RECORD" ->
                IF c = EOL THEN st ELSE [st EXCEPT !.state = "EAT_CRNL"]
          [] state = "START_FIELD" ->
                IF c \in {LF, CR, EOL} THEN SaveField(st, AfterLine(c))
                ELSE IF c = Quote THEN [st EXCEPT !.state = "IN_QUOTED_FIELD"]
                ELSE IF c = Comma THEN SaveField(st, "START_FIELD")
                ELSE AddChar(st, c, "IN_FIELD")
          [] state = "IN_FIELD" ->
                IF c \in {LF, CR, EOL} THEN SaveField(st, AfterLine(c))
                ELSE IF c = Comma THEN SaveField(st, "START_FIELD")
                ELSE AddChar(st, c, "IN_FIELD")
          [] state = "IN_QUOTED_FIELD" ->
                IF c = EOL THEN st
                ELSE IF c = Quote THEN [st EXCEPT !.state = "QUOTE_IN_QUOTED_FIELD"]
                ELSE AddChar(st, c, "IN_QUOTED_FIELD")
          [] state = "QUOTE_IN_QUOTED_FIELD" ->
                IF c = Quote THEN AddChar(st, c, "IN_QUOTED_FIELD")
                ELSE IF c = Comma THEN SaveField(st, "START_FIELD")
                ELSE IF c \in {LF, CR, EOL} THEN SaveField(st, AfterLine(c))
                ELSE AddChar(st, c, "IN_FIELD")
          [] state = "EAT_CRNL" ->
                IF c \in {LF, CR} THEN st
                ELSE IF c = EOL THEN [st EXCEPT !.state = "START_RECORD"]
                ELSE [st EXCEPT !.state = "ERROR"]

\* the rows the reader yields from the characters left to read, or Error
RECURSIVE ReaderRows(_,_,_)
ReaderRows(text, st, rows) ==
    IF text = <<>>
    THEN \* no more lines: an open record is yielded as it stands
         IF st.field # <<>> \/ st.state = "IN_QUOTED_FIELD"
         THEN List(Append(rows, List(Append(st.fields, st.field))))
         ELSE List(rows)
    ELSE IF Head(text) = NUL THEN Raise("Error")
    ELSE
    LET c        == Head(text)
        st1      == ProcessChar(st, c)
        lineEnds == c = LF \/ Len(text) = 1
        st2      == IF lineEnds /\ st1.state # "ERROR"
                    THEN ProcessChar(st1, EOL) ELSE st1
    IN  IF st2.state = "ERROR" THEN Raise("Error")
        ELSE IF lineEnds /\ st2.state = "START_RECORD"
        THEN ReaderRows(Tail(text), StartRecord, Append(rows, List(st2.fields)))
        ELSE ReaderRows(Tail(text), st2, rows)

\* list(csv.reader(file)) for a file that reads as text
reader(text) == ReaderRows(text, StartRecord, <<>>)

----------------------------------------------------------------------------
(* json.loads(text), for the documents of the model's files: a string, an
   empty list or an empty dictionary, with whitespace around it *)

Whitespace == {LF, CR}

RECURSIVE SkipWhitespace(_)
SkipWhitespace(text) ==
    IF text # <<>> /\ Head(text) \in Whitespace
    THEN SkipWhitespace(Tail(text)) ELSE text

\* the document that starts at the first character of text, and what follows
\* it: [value, rest], or a JSONDecodeError
Document(text) ==
    IF text = <<>> THEN Raise("JSONDecodeError")
    ELSE IF Head(text) = Quote
    THEN LET ends == {j \in 2..Len(text) : text[j] = Quote}
         IN  IF ends = {} THEN Raise("JSONDecodeError")
             ELSE LET j == CHOOSE e \in ends : \A f \in ends : e <= f
                      content == SubSeq(text, 2, j - 1)
                  IN  IF \E i \in 1..Len(content) : content[i] \in {LF, CR, NUL}
                      THEN Raise("JSONDecodeError")
                      ELSE [type |-> "document", value |-> Str(content),
                            rest |-> SubSeq(text, j + 1, Len(text))]
    ELSE IF Head(text) \in {"[", "{"}
    THEN LET inner  == SkipWhitespace(Tail(text))
             closer == IF Head(text) = "[" THEN "]" ELSE "}"
         IN  IF inner # <<>> /\ Head(inner) = closer
             THEN [type |-> "document",
                   value |-> IF closer = "]" THEN List(<<>>)
                             ELSE [type |-> "dict", value |-> <<>>],
                   rest |-> Tail(inner)]
             ELSE Raise("JSONDecodeError")
    ELSE Raise("JSONDecodeError")

loads(text) ==
    LET doc == Document(SkipWhitespace(text))
    IN  IF doc.type = "raise" THEN doc
        ELSE IF SkipWhitespace(doc.rest) # <<>> THEN Raise("JSONDecodeError")
        ELSE doc.value

----------------------------------------------------------------------------
(* read_csv, write_csv, read_json.  Each opens the file, works on it and
   closes it, in straight-line code: an exception between open and close
   leaves the function with the file open. *)

\* read_csv(filename), from what is at filename: the result and whether the
\* file was opened and was closed
read_csv(contents) ==
    IF contents = NoFile
    THEN [result |-> Raise("FileNotFoundError"), opened |-> FALSE, closed |-> FALSE]
    ELSE IF \E i \in 1..Len(contents.bytes) : contents.bytes[i] = Undecodable
    THEN [result |-> Raise("UnicodeDecodeError"), opened |-> TRUE, closed |-> FALSE]
    ELSE LET rows == reader(UniversalNewlines(contents.bytes))
         IN  [result |-> rows, opened |-> TRUE, closed |-> rows.type # "raise"]

\* the rows of data that writerow cannot iterate over
NotIterable(rows) == {x \in 1..Len(rows) : rows[x] = None}

\* write_csv(data, filename): the result, whether the file was closed, and
\* what filename can hold afterwards.  When writerow raises, the rows before
\* are in the buffer of the file that was not closed: they are in the file
\* or not.
write_csv(rows, linesep) ==
    LET bad     == NotIterable(rows)
        x       == IF bad = {} THEN Len(rows) + 1
                   ELSE CHOOSE b \in bad : \A c \in bad : b <= c
        written == TextWrite(Concat([y \in 1..(x - 1) |-> writerow(rows[y].value)]),
                             linesep)
    IN  IF bad = {}
        THEN [result |-> None, closed |-> TRUE, disks |-> {File(written)}]
        ELSE [result |-> Raise("Error"), closed |-> FALSE,
              disks |-> {File(<<>>), File(written)}]

\* read_json(filename): json.loads runs after file.close()
read_json(contents) ==
    IF contents = NoFile
    THEN [result |-> Raise("FileNotFoundError"), opened |-> FALSE, closed |-> FALSE]
    ELSE IF \E i \in 1..Len(contents.bytes) : contents.bytes[i] = Undecodable
    THEN [result |-> Raise("UnicodeDecodeError"), opened |-> TRUE, closed |-> FALSE]
    ELSE [result |-> loads(UniversalNewlines(contents.bytes)), opened |-> TRUE,
          closed |-> TRUE]

\* the file object a call opened
Handle(owner, closed) == [owner |-> owner, closed |-> closed]

----------------------------------------------------------------------------
(* Arguments and files of the file functions *)

\* the characters of cells
CellChars == {"a", Comma, Quote, LF, CR}

CsvCells == UNION {[1..n -> CellChars] : n \in 0..MaxCellLen}

\* the lists of n rows of strings with at most cells cells in all
RECURSIVE TablesOf(_,_)
TablesOf(n, cells) ==
    IF n = 0 THEN {<<>>}
    ELSE UNION {{<<List(row)>> \o rest : row \in [1..k -> CsvCells],
                                  rest \in TablesOf(n - 1, cells - k)} :
                k \in 0..cells}

StringTables == UNION {TablesOf(n, MaxCells) : n \in 0..MaxCsvRows}

\* data with a last row that is no list
BrokenTables == {Append(t, None) : t \in UNION {TablesOf(n, 1) : n \in 0..1}}

DataSets == StringTables \cup BrokenTables

\* what is at filename before the calls
Files ==
    {NoFile, File(<<"[", "]">>), File(<<"{", "}", LF>>), File(<<"a", NUL, LF>>),
     File(<<"a", Comma, Undecodable, LF>>)}

----------------------------------------------------------------------------
(* Specification of the file functions *)

InitFiles ==
    /\ daycycle = Unset
    /\ time = Unset
    /\ timestamp = Unset
    /\ tzsource = Unset
    /\ table = Unset
    /\ id = Unset
    /\ result = Unset
    /\ readers = Unset
    /\ data \in DataSets
    /\ disk \in Files
    /\ handles = <<>>

\* a call read_csv(filename)
ReadCsv ==
    LET out == read_csv(disk)
    IN  /\ Len(handles) < MaxCalls
        /\ result' = out.result
        /\ handles' = IF out.opened
                      THEN Append(handles, Handle("read_csv", out.closed))
                      ELSE handles
        /\ UNCHANGED <<daycycle, time, timestamp, tzsource, table, id,
                       readers, data, disk>>

\* a call write_csv(data, filename) on a platform whose os.linesep is linesep
WriteCsv(linesep) ==
    LET out == write_csv(data, linesep)
    IN  /\ Len(handles) < MaxCalls
        /\ result' = out.result
        /\ disk' \in out.disks
        /\ handles' = Append(handles, Handle("write_csv", out.closed))
        /\ UNCHANGED <<daycycle, time, timestamp, tzsource, table, id,
                       readers, data>>

\* a call read_json(filename)
ReadJson ==
    LET out == read_json(disk)
    IN  /\ Len(handles) < MaxCalls
        /\ result' = out.result
        /\ handles' = IF out.opened
                      THEN Append(handles, Handle("read_json", out.closed))
                      ELSE handles
        /\ UNCHANGED <<daycycle, time, timestamp, tzsource, table, id,
                       readers, data, disk>>

NextFiles ==
    \/ ReadCsv
    \/ \E linesep \in LineSeps : WriteCsv(linesep)
    \/ ReadJson

SpecFiles == InitFiles /\ [][NextFiles]_vars

----------------------------------------------------------------------------
(* Vocabulary of the properties *)

\* a call has returned or raised
Called == result # Unset

\* daytime: the keys of the call's datetime, and whether the table has them
YearKey == StrfYear(time.day)

MonthDayKey == StrfMonthDay(time.day)

HasYear == YearKey \in DOMAIN daycycle

HasEntry == HasYear /\ MonthDayKey \in DOMAIN daycycle[YearKey]

\* the hour a time-of-day string of the table denotes
HourOf(s) == CHOOSE h \in Hours : HourMinute(h) = s

SunriseHour == HourOf(daycycle[YearKey][MonthDayKey].sunrise)

SunsetHour == HourOf(daycycle[YearKey][MonthDayKey].sunset)

\* the table's zone, and the absolute instants of sunrise and sunset of the
\* looked-up date in that zone
TableZone == Zone(daycycle["timezone"])

SunriseUtc == Utc(Localize(TableZone, DateTime(time.day, SunriseHour, None)))

SunsetUtc == Utc(Localize(TableZone, DateTime(time.day, SunsetHour, None)))

\* the absolute instant the call's datetime denotes; a naive one is a wall
\* clock of the table's zone
TimeUtc ==
    IF time.tzinfo = None THEN Utc(Localize(TableZone, time)) ELSE Utc(time)

\* the looked-up entry satisfies the precondition sunrise < sunset
EntryInOrder == HasEntry /\ SunriseHour < SunsetHour

\* str_to_time: what the text of the call parses to
Parsed == Parse(timestamp.value)

ParsedAware == Parsed.type = "datetime" /\ Parsed.tzinfo # None

ParsedNaive == Parsed.type = "datetime" /\ Parsed.tzinfo = None

\* the calendar date (in days since 2015-01-01) on which a zone falls back,
\* by the zone's own wall clock
FallBackDate(zone) == (zone.fallBack + zone.dst) \div HoursPerDay

\* get_for_id: the rows (counted from 0) whose first cell is the identifier
Matches == {x \in 0..(Len(table) - 1) : Row(table, x)[1] = id.value}

FirstMatch == CHOOSE x \in Matches : \A y \in Matches : x <= y

----------------------------------------------------------------------------
(* Properties of daytime, checked under SpecDaytime *)

\* C1 (as stated): a datetime that denotes exactly the sunrise instant of its
\* date, for an entry with sunrise < sunset, is classified True.
C1_SunriseInclusive ==
    (Called /\ EntryInOrder /\ TimeUtc = SunriseUtc) => result = Bool(TRUE)

\* C1 (amended): a datetime that denotes exactly the sunrise instant of its
\* date, for an entry with sunrise < sunset, is classified False: daytime
\* begins after sunrise.
C1_SunriseExclusive ==
    (Called /\ EntryInOrder /\ TimeUtc = SunriseUtc) => result = Bool(FALSE)

\* a datetime of another zone than the table's, at the sunrise instant
C1_Witness ==
    /\ Called /\ EntryInOrder /\ TimeUtc = SunriseUtc
    /\ time.tzinfo # None /\ time.tzinfo.name # daycycle["timezone"]
    /\ result = Bool(FALSE)

\* C2: away from the sunrise instant the classification is the half-open
\* rule: True strictly between sunrise and sunset, False before sunrise and
\* from sunset on.
C2_HalfOpenAwayFromSunrise ==
    (Called /\ EntryInOrder) =>
        /\ (SunriseUtc < TimeUtc /\ TimeUtc < SunsetUtc) => result = Bool(TRUE)
        /\ (TimeUtc < SunriseUtc \/ TimeUtc >= SunsetUtc) => result = Bool(FALSE)

\* C3: the year is a key of the table and the month-day is no key of that
\* year: the result is None.
C3_MissingMonthDayIsNone ==
    (Called /\ HasYear /\ ~HasEntry) => result = None

\* C4: the year is no key of the table: the result is None, whatever the
\* hour and the zone of the datetime.
C4_MissingYearIsNone ==
    (Called /\ ~HasYear) => result = None

\* a zoned datetime of a year the table lacks, the table having other years
C4_Witness ==
    /\ Called /\ ~HasYear
    /\ time.tzinfo # None /\ time.hour > 0
    /\ DOMAIN daycycle # {"timezone"}
    /\ result = None

----------------------------------------------------------------------------
(* Properties of str_to_time, checked under SpecStrToTime *)

\* C5: a text that parses with a utc offset is returned as parsed, with its
\* own tzinfo, whatever tzsource is.
C5_ExplicitZoneKept ==
    (Called /\ ParsedAware) => result = Parsed

\* a zone name as tzsource none of whose offsets is the text's
C5_Witness ==
    /\ Called /\ ParsedAware
    /\ tzsource.type = "str" /\ tzsource.value \in ZoneNames
    /\ Parsed.tzinfo.off \notin {Zone(tzsource.value).std, Zone(tzsource.value).dst}
    /\ result = Parsed

\* C6: a text that parses naive, with the name of a zone as tzsource: the
\* date and hour are the parsed ones, and the offset is the one in effect in
\* the zone at that time: daylight saving time on the days before the zone
\* falls back, standard time on the days after.
C6_LocalizedByZoneRule ==
    (Called /\ ParsedNaive /\ tzsource.type = "str" /\ tzsource.value \in ZoneNames) =>
        LET zone == Zone(tzsource.value)
        IN  /\ result.type = "datetime"
            /\ result.day = Parsed.day /\ result.hour = Parsed.hour
            /\ result.tzinfo.name = zone.name
            /\ UtcOffsetAt(zone, Utc(result)) = result.tzinfo.off
            /\ Calendar[Parsed.day].ord < FallBackDate(zone)
                   => result.tzinfo.off = zone.dst
            /\ Calendar[Parsed.day].ord > FallBackDate(zone)
                   => result.tzinfo.off = zone.std

\* a date in daylight saving time gets the daylight saving offset
C6_Witness ==
    /\ Called /\ ParsedNaive /\ tzsource.type = "str" /\ tzsource.value \in ZoneNames
    /\ result.type = "datetime"
    /\ result.tzinfo.off = Zone(tzsource.value).dst
    /\ result.tzinfo.off # Zone(tzsource.value).std

\* C7: a text that parses naive, with a datetime as tzsource: the date and
\* hour are the parsed ones and the tzinfo is that of tzsource.
C7_ZoneOfHintInstant ==
    (Called /\ ParsedNaive /\ tzsource.type = "datetime") =>
        /\ result.type = "datetime"
        /\ result.day = Parsed.day /\ result.hour = Parsed.hour
        /\ result.tzinfo = tzsource.tzinfo

\* an aware tzsource of another date and hour than the text
C7_Witness ==
    /\ Called /\ ParsedNaive /\ tzsource.type = "datetime"
    /\ tzsource.tzinfo # None
    /\ tzsource.day # Parsed.day /\ tzsource.hour # Parsed.hour
    /\ result = DateTime(Parsed.day, Parsed.hour, tzsource.tzinfo)

\* C8: a text that does not parse gives None, and no exception, whatever
\* tzsource is.
C8_UnparsableIsNone ==
    (Called /\ Parsed.type = "raise") => result = None

\* a text that does not parse, with a datetime as tzsource
C8_Witness ==
    /\ Called /\ Parsed.type = "raise"
    /\ tzsource.type = "datetime"
    /\ result = None

----------------------------------------------------------------------------
(* Properties of get_for_id, checked under SpecGetForId *)

\* C9: every row is scanned, row 0 included: when some row has the
\* identifier in its first cell, the result is the lowest such row.
C9_ScansFromRowZero ==
    (Called /\ Matches # {}) => result = RowRef(table, FirstMatch)

\* C10: when several rows have the identifier, the result is the first of
\* them in row order, never a later one.
C10_FirstOfDuplicates ==
    (Called /\ Cardinality(Matches) >= 2) =>
        (result.type = "list" /\ result.ref = FirstMatch)


\* C11: None is returned when no row has the identifier in its first cell,
\* and only then.
C11_NoneIffNoMatch ==
    Called => (result = None <=> Matches = {})

----------------------------------------------------------------------------
(* More properties of str_to_time, checked under SpecStrToTime *)

\* C15: a text that parses naive, with None as tzsource, is returned as
\* parsed: the same date and hour, and no tzinfo.
C15_NaiveWithoutHint ==
    (Called /\ ParsedNaive /\ tzsource = None) =>
        /\ result.type = "datetime"
        /\ result.day = Parsed.day /\ result.hour = Parsed.hour
        /\ result.tzinfo = None

\* a date with an hour, no utc offset, no tzsource
C15_Witness ==
    /\ Called /\ ParsedNaive /\ tzsource = None
    /\ Parsed.hour > 0
    /\ result = DateTime(Parsed.day, Parsed.hour, None)

----------------------------------------------------------------------------
(* More properties of daytime, checked under SpecDaytime *)

\* the calendar date (in days since 2015-01-01) of the call's datetime as the
\* table's zone shows it
DateInTableZone == (TimeUtc + UtcOffsetAt(TableZone, TimeUtc)) \div HoursPerDay

\* the table has an entry for that date
TableZoneDateHasEntry ==
    \E d \in Days :
        /\ Calendar[d].ord = DateInTableZone
        /\ StrfYear(d) \in DOMAIN daycycle
        /\ StrfMonthDay(d) \in DOMAIN daycycle[StrfYear(d)]

\* C16: a naive datetime is a wall clock of the table's zone: it is
\* classified by its hour against the sunrise and sunset hours of the entry,
\* True strictly between them, False before sunrise and from sunset on.
C16_NaiveByWallClock ==
    (Called /\ HasEntry /\ time.tzinfo = None) =>
        /\ (SunriseHour < time.hour /\ time.hour < SunsetHour) => result = Bool(TRUE)
        /\ (time.hour < SunriseHour \/ time.hour >= SunsetHour) => result = Bool(FALSE)

\* C17: a datetime with a tzinfo is classified by its absolute instant
\* against sunrise and sunset of the looked-up date in the table's zone, so
\* every other zoned datetime of the same instant and the same date is
\* classified alike.
C17_ZonedByAbsoluteInstant ==
    (Called /\ HasEntry /\ time.tzinfo # None) =>
        /\ result = Bool(SunriseUtc < TimeUtc /\ TimeUtc < SunsetUtc)
        /\ \A t2 \in DateTimes :
              (t2.tzinfo # None /\ t2.day = time.day /\ Utc(t2) = Utc(time))
                  => daytime(t2, daycycle) = result

\* a datetime of another zone than the table's, in daytime, whose hour is not
\* after the sunrise hour, with a datetime of a third zone at the same instant
C17_Witness ==
    /\ Called /\ HasEntry /\ time.tzinfo # None
    /\ time.tzinfo.name # daycycle["timezone"]
    /\ time.hour <= SunriseHour
    /\ \E t2 \in DateTimes :
          /\ t2.tzinfo # None /\ t2.tzinfo # time.tzinfo
          /\ t2.day = time.day /\ Utc(t2) = Utc(time)
    /\ result = Bool(TRUE)

\* C18: the year and month-day keys are those of the datetime's own date, in
\* its own zone: the result is None when that year is no key, a boolean when
\* that date has an entry, by sunrise and sunset of that date, also when the
\* table's zone shows another date at that instant.
C18_KeysOfOwnDate ==
    (Called /\ time.tzinfo # None) =>
        /\ ~HasYear => result = None
        /\ HasEntry => result = Bool(SunriseUtc < TimeUtc /\ TimeUtc < SunsetUtc)
        /\ result.type = "bool" => HasEntry

\* a zoned datetime whose date in the table's zone is another day, one that
\* has no entry, classified by the entry of its own date
C18_Witness ==
    /\ Called /\ HasEntry /\ time.tzinfo # None
    /\ DateInTableZone # Calendar[time.day].ord
    /\ ~TableZoneDateHasEntry
    /\ result.type = "bool"

\* C20: an entry whose sunset hour is not after its sunrise hour: every
\* datetime of that date is classified False.
C20_SunsetNotAfterSunrise ==
    (Called /\ HasEntry /\ SunsetHour <= SunriseHour) => result = Bool(FALSE)

\* an hour after such an entry's sunrise, where an overnight span would be day
C20_Witness ==
    /\ Called /\ HasEntry /\ SunsetHour < SunriseHour
    /\ time.hour > SunriseHour
    /\ result = Bool(FALSE)


----------------------------------------------------------------------------
(* Properties of get_for_id and its caller, checked under SpecRowAlias *)

\* C19: the returned row is a copy: neither the lookup nor an assignment to
\* the returned row changes the table.
C19_ReturnsCopy == [][table' = table]_vars


----------------------------------------------------------------------------
(* Properties of interleaved daytime calls, checked under SpecReaders *)

\* C14: daytime never changes the daycycle dictionary, and every call that
\* interleaves with other calls on the same dictionary ends with the result
\* the call gives alone.
C14_ReadOnlySharedTable ==
    /\ [][daycycle' = daycycle]_vars
    /\ [](\A r \in Readers :
            readers[r].pc = "done" =>
                readers[r].result = daytime(readers[r].time, daycycle))

\* a call ends in daytime while another call is between its reads of the
\* same entry
C14_Witness ==
    \E r1, r2 \in Readers :
        /\ readers[r1].pc = "done" /\ readers[r1].result = Bool(TRUE)
        /\ readers[r2].pc = "sunset"
        /\ readers[r2].time.day = readers[r1].time.day


----------------------------------------------------------------------------
(* Properties of the file functions, checked under SpecFiles *)

\* the last two files opened: write_csv wrote the data and closed the file,
\* then read_csv read it
WrittenThenRead ==
    LET n == Len(handles)
    IN  /\ n >= 2
        /\ handles[n - 1] = Handle("write_csv", TRUE)
        /\ handles[n].owner = "read_csv"

\* C12: data whose cells are strings, with delimiters, quotes and line breaks
\* in them, written by write_csv and then read by read_csv, comes back as it
\* was: the same rows, the same cells, in the same order.
C12_RoundTrip ==
    WrittenThenRead => result = List(data)

\* C13: every file a call of read_csv, write_csv or read_json opened is
\* closed when the call has returned or raised.
C13_NoOpenHandle ==
    \A i \in 1..Len(handles) : handles[i].closed


----------------------------------------------------------------------------
(* The results of daytime together, checked under SpecDaytime *)

\* the sunrise and sunset strings of the looked-up entry resolve to datetimes
EntryResolves ==
    /\ HasEntry
    /\ \A s \in {daycycle[YearKey][MonthDayKey].sunrise,
                 daycycle[YearKey][MonthDayKey].sunset} :
          str_to_time(StrfDate(time.day) \o "T" \o s,
                      Str(daycycle["timezone"])).type = "datetime"

\* C21: when the table has the year and the month-day of the datetime and
\* the entry's strings resolve, the result is True or False, for naive and
\* zoned datetimes alike; None is returned only when reference data is
\* missing.
C21_DefiniteBoolean ==
    Called =>
        /\ EntryResolves => result \in {Bool(TRUE), Bool(FALSE)}
        /\ result = None => ~HasEntry

\* a datetime at the very instant of sunset, where only the second test of
\* daytime gives the answer
C21_Witness ==
    /\ Called /\ EntryResolves /\ EntryInOrder
    /\ TimeUtc = SunsetUtc
    /\ result = Bool(FALSE)

====
